---- MODULE Spec2Model ----
(***************************************************************************)
(* The tick-stream pallet (backend/pallets/tick-stream/src/lib.rs): the    *)
(* storage maps Streams and Balances, the dispatchables create_stream,     *)
(* join_stream and tick, and the funds ledger (T::Currency) they call.     *)
(*                                                                         *)
(* Balance is u128 and last_tick / ticks / max_seconds are u32 in the      *)
(* source.  Both widths are scaled down (BalanceBits, TickBits) so that    *)
(* the wrap-around of `*` and `+=` is reachable; every amount keeps its    *)
(* width with % BalanceModulus / % TickModulus.                            *)
(***************************************************************************)
EXTENDS Integers, Sequences, FiniteSets, TLC

\* ---------------------------------------------------------------- bounds
\* Number of dispatched calls explored from genesis.
MaxCalls == 4
MaxBlocks == 6
\* Width in bits of the balance type (u128 in runtime/src/lib.rs, scaled).
BalanceBits == 12
\* Width in bits of last_tick, ticks and max_seconds (u32, scaled).
TickBits == 3

BalanceModulus == 2 ^ BalanceBits
TickModulus == 2 ^ TickBits

\* ------------------------------------------------------ program constants
\* type ExistentialDeposit = ConstU128<500>
ExistentialDeposit == 500

\* ------------------------------------------------------------ input sets
Alice == "Alice"
Bob == "Bob"
Accounts == {Alice, Bob}
\* An account of the funds ledger that dispatches nothing and views nothing.
Carol == "Carol"
Holders == Accounts \cup {Carol}
StreamIds == {1, 2}
\* price_per_second arguments: free, the scenario's price, and a price whose
\* product with 2 does not fit the balance type.
Prices == {0, 10, BalanceModulus \div 2}
\* max_seconds arguments of join_stream.
MaxSeconds == {2, 5}
\* ticks arguments of tick.
TickArgs == {0, 2, 3, TickModulus - 1}
\* Free balances an account may hold at genesis: none, exactly the
\* existential deposit, or the deposit plus the scenario's escrow of 50.
GenesisFree == {0, ExistentialDeposit, ExistentialDeposit + 50}

NoOrigin == [kind |-> "None", who |-> "-"]
Signed(a) == [kind |-> "Signed", who |-> a]
Origins == {NoOrigin} \cup {Signed(a) : a \in Accounts}

VARIABLES
    Streams,          \* StorageMap u128 -> Stream (a partial function)
    Balances,         \* StorageDoubleMap (u128, AccountId) -> Balance
    account,          \* funds ledger: AccountId -> [free, reserved]
    events,           \* events deposited so far
    last,             \* the last dispatched call: [op, result]
    calls,            \* number of calls dispatched
    escrowed,         \* ghost: (stream, viewer) -> sum reserved by joins
    transferred,      \* ghost: (stream, viewer) -> sum moved by ticks
    owed,             \* ghost: stream -> sum of price * ticks (unbounded)
    ticked,           \* ghost: stream -> sum of ticks arguments (unbounded)
    pool,             \* transaction pool: the pending unsigned transitions
    block_number,     \* number of the best block
    submitted,        \* the last submission: [call, validity, outcome]
    dropped           \* ghost: number of transitions the pool dropped as stale

ledger == <<Streams, Balances, account>>
ghosts == <<escrowed, transferred, owed, ticked>>
node == <<pool, block_number, submitted, dropped>>
vars == <<Streams, Balances, account, events, last, calls,
          escrowed, transferred, owed, ticked,
          pool, block_number, submitted, dropped>>

Keys == StreamIds \X Accounts

\* ------------------------------------------------------------- storage
\* StorageMap::insert / StorageDoubleMap::insert
Insert(map, key, value) ==
    [k \in (DOMAIN map) \cup {key} |-> IF k = key THEN value ELSE map[k]]

\* struct Stream
Stream(creator, price_per_second, last_tick) ==
    [creator |-> creator, price_per_second |-> price_per_second,
     last_tick |-> last_tick]

\* enum Event
StreamCreated(stream_id, creator, price) ==
    [kind |-> "StreamCreated", stream_id |-> stream_id, who |-> creator,
     value |-> price]
TickProcessed(stream_id, viewer, ticks) ==
    [kind |-> "TickProcessed", stream_id |-> stream_id, who |-> viewer,
     value |-> ticks]

\* The record of a dispatched call: the dispatchable and its DispatchResult
\* ("Ok", the Err it returned, or "Panic" when the call aborted).
Call(op, result) == [op |-> op, result |-> result]

\* The build profile decides what `*` and `+=` do on overflow: abort the
\* call (overflow checks on) or wrap modulo 2^w (overflow checks off).  A call
\* that aborts leaves no trace, so the outcome is chosen where the overflow
\* happens.
OverflowChecks == BOOLEAN
\* The dispatch either runs the call in a storage layer that is rolled back
\* when the call returns Err, or commits each write as it is made.
StorageLayer == BOOLEAN

\* ---------------------------------------------------------- arithmetic
\* `a * b` on the balance type: the product the wrapping build leaves.
BalanceMul(a, b) == (a * b) % BalanceModulus
\* `a * b` does not fit the balance type.
MulOverflows(a, b) == a * b >= BalanceModulus
\* `last_tick += ticks` on u32: the sum the wrapping build leaves.
TickAdd(a, b) == (a + b) % TickModulus
\* `last_tick += ticks` does not fit u32.
AddOverflows(a, b) == a + b >= TickModulus
\* `reserved - cost` on the balance type.
BalanceSub(a, b) == (a - b) % BalanceModulus

\* -------------------------------------------------- funds ledger (Currency)
Total(a) == a.free + a.reserved

\* A reserve that checks the free balance but places no hold.
reserve_unheld(acc, who, value) ==
    IF value = 0 THEN [ok |-> TRUE, err |-> "Ok", account |-> acc]
    ELSE IF acc[who].free < value
    THEN [ok |-> FALSE, err |-> "InsufficientFunds", account |-> acc]
    ELSE [ok |-> TRUE, err |-> "Ok", account |-> acc]

\* T::Currency::reserve(&who, amount): moves amount from the free to the
\* reserved balance of who; a zero amount is a no-op.
reserve(acc, who, value) ==
    IF value = 0 THEN [ok |-> TRUE, err |-> "Ok", account |-> acc]
    ELSE IF acc[who].free < value
    THEN [ok |-> FALSE, err |-> "InsufficientFunds", account |-> acc]
    ELSE [ok |-> TRUE, err |-> "Ok",
          account |-> [acc EXCEPT ![who] =
                          [free |-> acc[who].free - value,
                           reserved |-> acc[who].reserved + value]]]

\* A transfer that takes the amount from the source twice.
transfer_charged_twice(acc, source, dest, value) ==
    IF value = 0 \/ source = dest
    THEN [ok |-> TRUE, err |-> "Ok", account |-> acc]
    ELSE IF acc[source].free < 2 * value
    THEN [ok |-> FALSE, err |-> "InsufficientFunds", account |-> acc]
    ELSE IF acc[dest].free + value >= BalanceModulus
    THEN [ok |-> FALSE, err |-> "Overflow", account |-> acc]
    ELSE IF Total(acc[dest]) + value < ExistentialDeposit
    THEN [ok |-> FALSE, err |-> "ExistentialDeposit", account |-> acc]
    ELSE IF Total(acc[source]) - 2 * value < ExistentialDeposit
    THEN [ok |-> FALSE, err |-> "KeepAlive", account |-> acc]
    ELSE [ok |-> TRUE, err |-> "Ok",
          account |-> [acc EXCEPT ![source].free = @ - 2 * value,
                                  ![dest].free = @ + value]]

\* T::Currency::transfer(&viewer, &creator, cost, KeepAlive): moves cost from
\* the free balance of the source to the free balance of the destination;
\* the source must stay alive and the destination must exist afterwards.
transfer(acc, source, dest, value) ==
    IF value = 0 \/ source = dest
    THEN [ok |-> TRUE, err |-> "Ok", account |-> acc]
    ELSE IF acc[source].free < value
    THEN [ok |-> FALSE, err |-> "InsufficientFunds", account |-> acc]
    ELSE IF acc[dest].free + value >= BalanceModulus
    THEN [ok |-> FALSE, err |-> "Overflow", account |-> acc]
    ELSE IF Total(acc[dest]) + value < ExistentialDeposit
    THEN [ok |-> FALSE, err |-> "ExistentialDeposit", account |-> acc]
    ELSE IF Total(acc[source]) - value < ExistentialDeposit
    THEN [ok |-> FALSE, err |-> "KeepAlive", account |-> acc]
    ELSE [ok |-> TRUE, err |-> "Ok",
          account |-> [acc EXCEPT ![source].free = @ - value,
                                  ![dest].free = @ + value]]

\* ------------------------------------------------------------- genesis
Init ==
    /\ Streams = << >>
    /\ Balances = << >>
    /\ account \in
         {[a \in Holders |->
              [free |-> IF a \in Accounts THEN g[a] ELSE ExistentialDeposit,
               reserved |-> 0]] : g \in [Accounts -> GenesisFree]}
    /\ events = << >>
    /\ last = Call("genesis", "Ok")
    /\ calls = 0
    /\ escrowed = [k \in Keys |-> 0]
    /\ transferred = [k \in Keys |-> 0]
    /\ owed = [s \in StreamIds |-> 0]
    /\ ticked = [s \in StreamIds |-> 0]
    /\ pool = {}
    /\ block_number = 0
    /\ submitted = [call |-> "-", validity |-> "-", outcome |-> "-"]
    /\ dropped = 0

\* A call that returns Err (or panics) before any storage write.
Reject(call) ==
    /\ last' = call
    /\ calls' = calls + 1
    /\ UNCHANGED <<Streams, Balances, account, events, ghosts>>

\* ------------------------------------------------------- dispatchables
\* ensure_signed(origin)? succeeds.
ensure_signed(origin) == origin.kind = "Signed"

\* A tick that does not look at its origin.
ensure_none_skipped(origin) == TRUE

\* ensure_none(origin)? succeeds.
ensure_none(origin) == origin.kind = "None"

\* A create_stream that does not look for an existing record.
StreamsContainsKeyNever(stream_id) == FALSE

\* <Streams<T>>::contains_key(stream_id)
StreamsContainsKey(stream_id) == stream_id \in DOMAIN Streams

\* A lookup that yields the default balance 0 for an absent reservation.
BalancesGetOrDefault(stream_id, viewer) ==
    IF <<stream_id, viewer>> \in DOMAIN Balances
    THEN {Balances[<<stream_id, viewer>>]} ELSE {0}

\* <Balances<T>>::get(stream_id, &viewer): an Option, as the set of its values.
BalancesGet(stream_id, viewer) ==
    IF <<stream_id, viewer>> \in DOMAIN Balances
    THEN {Balances[<<stream_id, viewer>>]} ELSE {}

\* ensure!(!<Streams<T>>::contains_key(stream_id), Error::<T>::StreamNotFound)
CreateCollisionError == "StreamNotFound"

create_stream(origin, stream_id, price_per_second) ==
    LET who == origin.who
        call(result) == Call("create_stream", result)
    IN  /\ calls < MaxCalls
        /\ IF ~ensure_signed(origin) THEN Reject(call("BadOrigin"))
           ELSE IF StreamsContainsKey(stream_id)
           THEN Reject(call(CreateCollisionError))
           ELSE /\ Streams' = Insert(Streams, stream_id,
                                     Stream(who, price_per_second, 0))
                /\ events' = Append(events,
                                StreamCreated(stream_id, who, price_per_second))
                /\ last' = call("Ok")
                /\ calls' = calls + 1
                /\ UNCHANGED <<Balances, account, ghosts>>

\* The reservation join_stream records for (stream_id, who).
JoinRecord(old, amount) == amount

join_stream(origin, stream_id, max_seconds) ==
    LET who == origin.who
        call(result) == Call("join_stream", result)
    IN  /\ calls < MaxCalls
        /\ IF ~ensure_signed(origin) THEN Reject(call("BadOrigin"))
           ELSE IF stream_id \notin DOMAIN Streams
           THEN Reject(call("StreamNotFound"))
           ELSE LET stream == Streams[stream_id]
                    amount == BalanceMul(stream.price_per_second, max_seconds)
                    held == reserve(account, who, amount)
                    old == IF <<stream_id, who>> \in DOMAIN Balances
                           THEN Balances[<<stream_id, who>>] ELSE 0
                    Hold ==
                        IF ~held.ok THEN Reject(call(held.err))
                        ELSE /\ account' = held.account
                             /\ Balances' = Insert(Balances, <<stream_id, who>>,
                                                   JoinRecord(old, amount))
                             /\ escrowed' = [escrowed EXCEPT
                                    ![<<stream_id, who>>] = @ + amount]
                             /\ last' = call("Ok")
                             /\ calls' = calls + 1
                             /\ UNCHANGED <<Streams, events, transferred,
                                            owed, ticked>>
                IN  IF MulOverflows(stream.price_per_second, max_seconds)
                    THEN \E overflow_checks \in OverflowChecks :
                            IF overflow_checks THEN Reject(call("Panic"))
                            ELSE Hold
                    ELSE Hold

\* A tick that settles without comparing the cost with the reservation.
EnsureReservedSkipped(reserved, cost) == TRUE

\* A balance check that also turns down a cost equal to the reservation.
EnsureReservedStrictly(reserved, cost) == reserved > cost

\* ensure!(reserved >= cost, Error::<T>::InsufficientBalance)
EnsureReserved(reserved, cost) == reserved >= cost

tick(origin, stream_id, viewer, ticks) ==
    LET call(result) == Call("tick", result)
    IN  /\ calls < MaxCalls
        /\ IF ~ensure_none(origin) THEN Reject(call("BadOrigin"))
           ELSE IF stream_id \notin DOMAIN Streams
           THEN Reject(call("StreamNotFound"))
           ELSE IF BalancesGet(stream_id, viewer) = {}
           THEN Reject(call("InsufficientBalance"))
           ELSE LET stream == Streams[stream_id]
                    reserved == CHOOSE r \in BalancesGet(stream_id, viewer) : TRUE
                    cost == BalanceMul(stream.price_per_second, ticks)
                    debited == Insert(Balances, <<stream_id, viewer>>,
                                      BalanceSub(reserved, cost))
                    moved == transfer(account, viewer, stream.creator, cost)
                    Commit ==
                        /\ Balances' = debited
                        /\ account' = moved.account
                        /\ Streams' = Insert(Streams, stream_id,
                               Stream(stream.creator, stream.price_per_second,
                                      TickAdd(stream.last_tick, ticks)))
                        /\ events' = Append(events,
                               TickProcessed(stream_id, viewer, ticks))
                        /\ transferred' = [transferred EXCEPT
                               ![<<stream_id, viewer>>] = @ + cost]
                        /\ owed' = [owed EXCEPT ![stream_id] =
                               @ + stream.price_per_second * ticks]
                        /\ ticked' = [ticked EXCEPT ![stream_id] = @ + ticks]
                        /\ last' = call("Ok")
                        /\ calls' = calls + 1
                        /\ UNCHANGED escrowed
                    Settle ==
                        IF ~EnsureReserved(reserved, cost)
                        THEN Reject(call("InsufficientBalance"))
                        ELSE IF ~moved.ok
                        THEN \* line 104 has written when line 105 returns Err
                             \E storage_layer \in StorageLayer :
                                /\ Balances' = IF storage_layer THEN Balances
                                               ELSE debited
                                /\ last' = call(moved.err)
                                /\ calls' = calls + 1
                                /\ UNCHANGED <<Streams, account, events, ghosts>>
                        ELSE IF AddOverflows(stream.last_tick, ticks)
                        THEN \E overflow_checks \in OverflowChecks :
                                IF overflow_checks THEN Reject(call("Panic"))
                                ELSE Commit
                        ELSE Commit
                IN  IF MulOverflows(stream.price_per_second, ticks)
                    THEN \E overflow_checks \in OverflowChecks :
                            IF overflow_checks THEN Reject(call("Panic"))
                            ELSE Settle
                    ELSE Settle

CreateStream ==
    \E origin \in Origins, stream_id \in StreamIds, price \in Prices :
        create_stream(origin, stream_id, price) /\ UNCHANGED node

JoinStream ==
    \E origin \in Origins, stream_id \in StreamIds, max_seconds \in MaxSeconds :
        join_stream(origin, stream_id, max_seconds) /\ UNCHANGED node

Tick ==
    \E origin \in Origins, stream_id \in StreamIds, viewer \in Accounts,
       ticks \in TickArgs :
        tick(origin, stream_id, viewer, ticks) /\ UNCHANGED node

Next == CreateStream \/ JoinStream \/ Tick

Spec == Init /\ [][Next]_vars

\* -------------------------------------------------- unsigned admission
TickPriority == 100
TickLongevity == 5

\* The tag a tick provides: the prefix and the constant "tick".
TickTag == <<"vilokanam", "tick">>

\* The calls of the pallet, as they arrive without a signature.
UnsignedCall(kind, stream_id, viewer, arg) ==
    [kind |-> kind, stream_id |-> stream_id, viewer |-> viewer, arg |-> arg]

\* The ticks arguments of the pooled ticks: one that the escrow of the setup
\* covers twice over, and one that it covers once.
PooledTicks == {2, 3}

UnsignedTicks ==
    {UnsignedCall("tick", s, v, n) :
        s \in StreamIds, v \in Accounts, n \in PooledTicks}

UnsignedCalls ==
    UnsignedTicks
    \cup {UnsignedCall("create_stream", s, "-", 10) : s \in StreamIds}
    \cup {UnsignedCall("join_stream", s, "-", 5) : s \in StreamIds}

ValidTransaction(priority, provides, longevity, propagate) ==
    [valid |-> TRUE, error |-> "-", priority |-> priority,
     provides |-> provides, longevity |-> longevity, propagate |-> propagate]

InvalidTransaction(error) ==
    [valid |-> FALSE, error |-> error, priority |-> 0,
     provides |-> {}, longevity |-> 0, propagate |-> FALSE]

\* A policy that admits every call of the pallet.
validate_unsigned_any_call(call) ==
    ValidTransaction(TickPriority, {TickTag}, TickLongevity, TRUE)

\* A policy whose ticks never grow stale within the blocks explored.
validate_unsigned_long_lived(call) ==
    IF call.kind = "tick"
    THEN ValidTransaction(TickPriority, {TickTag}, TickLongevity * TickLongevity,
                          TRUE)
    ELSE InvalidTransaction("Call")

\* fn validate_unsigned(_source, call)
validate_unsigned(call) ==
    IF call.kind = "tick"
    THEN ValidTransaction(TickPriority, {TickTag}, TickLongevity, TRUE)
    ELSE InvalidTransaction("Call")

\* A pending transition, valid up to the block numbered valid_till.
Pending(call, validity) ==
    [call |-> call, admitted |-> block_number,
     valid_till |-> block_number + validity.longevity,
     priority |-> validity.priority, provides |-> validity.provides]

\* The pending transitions that provide a tag the new one provides too.
Colliding(validity) == {tx \in pool : tx.provides \cap validity.provides # {}}

\* The pool receives an unsigned transition: it asks the runtime for the
\* validity, refuses an invalid one, refuses one whose tag a pending
\* transition of no lower priority provides, and replaces the lower ones.
submit_unsigned(call) ==
    LET validity == validate_unsigned(call)
        result(outcome) ==
            [call |-> call.kind, validity |-> validity, outcome |-> outcome]
    IN  /\ IF ~validity.valid
           THEN /\ submitted' = result("InvalidTransaction")
                /\ pool' = pool
           ELSE IF \E tx \in pool : tx.call = call
           THEN /\ submitted' = result("AlreadyImported")
                /\ pool' = pool
           ELSE IF \E tx \in Colliding(validity) : tx.priority >= validity.priority
           THEN /\ submitted' = result("TooLowPriority")
                /\ pool' = pool
           ELSE /\ submitted' = result("Ready")
                /\ pool' = (pool \ Colliding(validity))
                              \cup {Pending(call, validity)}
        /\ UNCHANGED <<Streams, Balances, account, events, last, calls, ghosts,
                       block_number, dropped>>

\* The block author takes a pending tick and dispatches it with no origin.
include(tx) ==
    /\ tx \in pool
    /\ tick(NoOrigin, tx.call.stream_id, tx.call.viewer, tx.call.arg)
    /\ pool' = pool \ {tx}
    /\ UNCHANGED <<block_number, submitted, dropped>>

\* A block is imported: the pool drops what is no longer valid at it.
import_block ==
    LET stale == {tx \in pool : tx.valid_till <= block_number + 1}
    IN  /\ block_number < MaxBlocks
        /\ block_number' = block_number + 1
        /\ pool' = pool \ stale
        /\ dropped' = dropped + Cardinality(stale)
        /\ UNCHANGED <<Streams, Balances, account, events, last, calls, ghosts,
                       submitted>>

SubmitUnsigned == \E call \in UnsignedCalls : submit_unsigned(call)

Include == \E tx \in pool : include(tx)

ImportBlock == import_block

\* The signed calls that set one stream up for the pooled ticks.
SignedSetup ==
    \/ create_stream(Signed(Alice), 1, 10) /\ UNCHANGED node
    \/ join_stream(Signed(Bob), 1, 5) /\ UNCHANGED node

PoolNext == SubmitUnsigned \/ Include \/ ImportBlock \/ SignedSetup

\* The development chain with both endowed accounts above the deposit.
PoolInit ==
    /\ Init
    /\ \A a \in Accounts : account[a].free = ExistentialDeposit + 50

PoolSpec == PoolInit /\ [][PoolNext]_vars

\* ------------------------------------------------------------- claims
SignedOrigins == {Signed(a) : a \in Accounts}

\* C1: a viewer is never charged more than they escrowed: for every
\* (stream, viewer) the funds moved by successful ticks are at most the sum
\* of the amounts the viewer's successful joins reserved for that stream.
NeverChargedMoreThanEscrowed ==
    \A k \in Keys : transferred[k] <= escrowed[k]

\* C1 witness: a tick has just charged a viewer, who is not the creator, the
\* last of a non-zero escrow.
EscrowFullyCharged ==
    \E k \in Keys :
        /\ k[1] \in DOMAIN Streams
        /\ Streams[k[1]].creator # k[2]
        /\ transferred[k] > 0
        /\ transferred[k] = escrowed[k]
        /\ last = Call("tick", "Ok")

\* C2: after a join, a tick whose cost price * n is within the reservation
\* succeeds, debits the reservation by price * n, advances last_tick by n and
\* credits the creator price * n; a tick whose cost exceeds the reservation
\* fails with InsufficientBalance and changes nothing.  (Stated for a viewer
\* other than the creator, a creator account that exists in the funds ledger
\* and arguments that do not overflow.)
EscrowCoversTicks ==
    [][\A s \in StreamIds, v \in Accounts, n \in TickArgs :
        (/\ s \in DOMAIN Streams
         /\ <<s, v>> \in DOMAIN Balances
         /\ v # Streams[s].creator
         /\ Total(account[Streams[s].creator]) >= ExistentialDeposit
         /\ ~MulOverflows(Streams[s].price_per_second, n)
         /\ ~AddOverflows(Streams[s].last_tick, n)
         /\ tick(NoOrigin, s, v, n))
        => LET p == Streams[s].price_per_second
               c == Streams[s].creator
               r == Balances[<<s, v>>]
           IN  IF p * n <= r
               THEN /\ last'.result = "Ok"
                    /\ Balances'[<<s, v>>] = r - p * n
                    /\ Streams'[s].last_tick = Streams[s].last_tick + n
                    /\ account'[c].free = account[c].free + p * n
               ELSE /\ last'.result = "InsufficientBalance"
                    /\ UNCHANGED <<Streams, Balances, account, events>>]_vars

\* C3: a successful tick of cost c takes c out of the amount the funds ledger
\* holds for the viewer, credits c to the creator and leaves the viewer's
\* spendable balance alone.
TickMovesEscrow ==
    [][\A s \in StreamIds, v \in Accounts, n \in TickArgs :
        (/\ s \in DOMAIN Streams
         /\ v # Streams[s].creator
         /\ tick(NoOrigin, s, v, n)
         /\ last'.result = "Ok")
        => LET c == Streams[s].creator
               cost == BalanceMul(Streams[s].price_per_second, n)
           IN  /\ account'[v].reserved = account[v].reserved - cost
               /\ account'[c].free = account[c].free + cost
               /\ account'[v].free = account[v].free]_vars
MonotoneTicks ==
    [][/\ \A s \in StreamIds, v \in Accounts, n \in TickArgs :
            (/\ s \in DOMAIN Streams
             /\ tick(NoOrigin, s, v, n)
             /\ last'.result = "Ok")
            => /\ Streams'[s].last_tick > Streams[s].last_tick
               /\ Streams'[s].last_tick = Streams[s].last_tick + n
       /\ \A s \in DOMAIN Streams' : Streams'[s].last_tick = ticked'[s]]_vars

\* The funds ticks have moved to the creator of stream s / the funds joins
\* have reserved for stream s.
RECURSIVE SumOver(_, _)
SumOver(f, S) ==
    IF S = {} THEN 0
    ELSE LET k == CHOOSE x \in S : TRUE IN f[k] + SumOver(f, S \ {k})
StreamKeys(s) == {k \in Keys : k[1] = s}

\* C6: for every stream the funds ticks have transferred equal the sum of
\* price_per_second * ticks (as mathematical integers) over the successful
\* ticks, and never exceed the funds joins have reserved for the stream.
Conservation ==
    \A s \in StreamIds :
        /\ SumOver(transferred, StreamKeys(s)) = owed[s]
        /\ SumOver(transferred, StreamKeys(s)) <= SumOver(escrowed, StreamKeys(s))

\* C7: create_stream on a stream_id already present fails with StreamExists,
\* leaves the record alone and emits no event; on a fresh stream_id it
\* inserts creator = caller, the given price and last_tick = 0.
CreateUniqueness ==
    [][\A o \in SignedOrigins, s \in StreamIds, p \in Prices :
        create_stream(o, s, p)
        => IF s \in DOMAIN Streams
           THEN /\ last'.result = "StreamExists"
                /\ UNCHANGED <<Streams, events>>
           ELSE /\ last'.result = "Ok"
                /\ Streams'[s] = Stream(o.who, p, 0)]_vars

\* C8: reservations never go below zero, and a tick whose cost
\* price_per_second * ticks exceeds the reservation fails with
\* InsufficientBalance without debiting, transferring or advancing last_tick.
NoPartialSettlement ==
    [][/\ \A k \in DOMAIN Balances' : Balances'[k] >= 0
       /\ \A s \in StreamIds, v \in Accounts, n \in TickArgs :
            (/\ s \in DOMAIN Streams
             /\ <<s, v>> \in DOMAIN Balances
             /\ Streams[s].price_per_second * n > Balances[<<s, v>>]
             /\ tick(NoOrigin, s, v, n))
            => /\ last'.result = "InsufficientBalance"
               /\ UNCHANGED <<Streams, Balances, account, events>>]_vars

\* C9: when price_per_second * max_seconds (join_stream) or price_per_second *
\* ticks (tick) exceeds the maximum of the balance type, the call is rejected
\* with an explicit error and changes nothing.
ArithmeticFailsClosed ==
    [][/\ \A o \in SignedOrigins, s \in StreamIds, m \in MaxSeconds :
            (/\ s \in DOMAIN Streams
             /\ MulOverflows(Streams[s].price_per_second, m)
             /\ join_stream(o, s, m))
            => /\ last'.result = "ArithmeticOverflow"
               /\ UNCHANGED <<Streams, Balances, account, events>>
       /\ \A s \in StreamIds, v \in Accounts, n \in TickArgs :
            (/\ s \in DOMAIN Streams
             /\ <<s, v>> \in DOMAIN Balances
             /\ MulOverflows(Streams[s].price_per_second, n)
             /\ tick(NoOrigin, s, v, n))
            => /\ last'.result = "ArithmeticOverflow"
               /\ UNCHANGED <<Streams, Balances, account, events>>]_vars

\* C10: a successful join_stream(caller, stream_id, max_seconds) takes exactly
\* price_per_second * max_seconds out of the caller's spendable balance and
\* puts exactly that amount on hold for the caller, moving nothing to any
\* other account; a join that fails records no reservation.
JoinHoldsExactAmount ==
    [][\A o \in SignedOrigins, s \in StreamIds, m \in MaxSeconds :
        (s \in DOMAIN Streams /\ join_stream(o, s, m))
        => LET amount == Streams[s].price_per_second * m
               who == o.who
           IN  IF last'.result = "Ok"
               THEN /\ account'[who].free = account[who].free - amount
                    /\ account'[who].reserved = account[who].reserved + amount
                    /\ \A a \in Accounts \ {who} : account'[a] = account[a]
               ELSE UNCHANGED <<Balances, account>>]_vars

\* C11: a successful join_stream leaves the reservation of (stream_id, caller)
\* equal to exactly price_per_second * max_seconds, whatever it was before,
\* and leaves the reservation of every other (stream, viewer) pair untouched.
RejoinOverwrites ==
    [][\A who \in Accounts, s \in StreamIds, m \in MaxSeconds :
          (/\ s \in DOMAIN Streams
           /\ join_stream(Signed(who), s, m)
           /\ last'.result = "Ok")
          => /\ <<s, who>> \in DOMAIN Balances'
             /\ Balances'[<<s, who>>] = Streams[s].price_per_second * m
             /\ \A k \in Keys \ {<<s, who>>} :
                   /\ (k \in DOMAIN Balances') = (k \in DOMAIN Balances)
                   /\ k \in DOMAIN Balances => Balances'[k] = Balances[k]]_vars

\* C12: a tick changes at most the reservation of (stream_id, viewer), the
\* last_tick of stream_id and the funds of the named viewer and of that
\* stream's creator; every other reservation, stream record and account is
\* unchanged, and the viewer loses at most the amount reserved for the pair.
TickFrame ==
    [][(last'.op = "tick" /\ ledger' # ledger)
          => \A s \in StreamIds, v \in Accounts :
                \/ /\ \A k \in Keys \ {<<s, v>>} :
                         /\ (k \in DOMAIN Balances') = (k \in DOMAIN Balances)
                         /\ k \in DOMAIN Balances => Balances'[k] = Balances[k]
                   /\ DOMAIN Streams' = DOMAIN Streams
                   /\ \A t \in DOMAIN Streams :
                         /\ t # s => Streams'[t] = Streams[t]
                         /\ Streams'[t].creator = Streams[t].creator
                         /\ Streams'[t].price_per_second
                               = Streams[t].price_per_second
                   /\ \A a \in Holders :
                         (/\ a # v
                          /\ s \in DOMAIN Streams => a # Streams[s].creator)
                         => account'[a] = account[a]
                   /\ Total(account[v]) - Total(account'[v])
                         <= (IF <<s, v>> \in DOMAIN Balances
                             THEN Balances[<<s, v>>] ELSE 0)
                \/ \A o \in Origins, n \in TickArgs : ~tick(o, s, v, n)]_vars

\* A tick has just moved funds while a second reservation was on record.
TickedBesideOtherReservation ==
    /\ last = Call("tick", "Ok")
    /\ \E k \in Keys : transferred[k] > 0
    /\ Cardinality(DOMAIN Balances) >= 2

\* C13: an unsigned transition is valid for the pool if and only if its kind
\* is tick; create_stream and join_stream are refused and never enter the
\* pool; every tick gets priority 100, longevity 5 and propagate = TRUE, in
\* every ledger state and for every argument triple.
AdmissionEligibility ==
    [][\A call \in UnsignedCalls :
          (submitted'.call = call.kind /\ submit_unsigned(call))
          => /\ submitted'.validity.valid = (call.kind = "tick")
             /\ call.kind = "tick"
                   => /\ submitted'.validity.priority = 100
                      /\ submitted'.validity.longevity = 5
                      /\ submitted'.validity.propagate = TRUE
             /\ call.kind # "tick"
                   => /\ submitted'.outcome = "InvalidTransaction"
                      /\ pool' = pool
             /\ \A tx \in pool' :
                   /\ tx.call.kind = "tick"
                   /\ tx.priority = 100
                   /\ tx.valid_till = tx.admitted + 5]_vars

\* An unsigned create_stream or join_stream has just been refused while a
\* tick is pending and the ledger holds a stream.
RefusedBesidePendingTick ==
    /\ submitted.outcome = "InvalidTransaction"
    /\ submitted.call \in {"create_stream", "join_stream"}
    /\ pool # {}
    /\ Streams # << >>

\* C14: the de-duplication tag is scoped by stream: while a tick for one
\* stream is pending, a tick for a different stream is still admitted, and
\* the pending tick stays in the pool.
TagScopedByStream ==
    [][\A call \in UnsignedTicks :
          (/\ submitted'.call = "tick"
           /\ pool # {}
           /\ \A tx \in pool : tx.call.stream_id # call.stream_id
           /\ submit_unsigned(call))
          => /\ submitted'.outcome = "Ready"
             /\ \E tx \in pool' : tx.call = call
             /\ pool \subseteq pool']_vars

StreamRecordsPermanent ==
    [][\A s \in DOMAIN Streams :
          /\ s \in DOMAIN Streams'
          /\ Streams'[s].creator = Streams[s].creator
          /\ Streams'[s].price_per_second = Streams[s].price_per_second
          /\ Streams'[s].last_tick # Streams[s].last_tick
                => last' = Call("tick", "Ok")]_vars

\* A create_stream has just been turned down for an existing stream while
\* a stream that ticks have advanced is on record.
CreateOverTickedStreamRefused ==
    /\ last = Call("create_stream", CreateCollisionError)
    /\ \E s \in DOMAIN Streams : Streams[s].last_tick > 0

AbsentSameAsZero ==
    [][last'.op = "tick"
          => \A s \in StreamIds, v \in Accounts :
                (/\ s \in DOMAIN Streams
                 /\ <<s, v>> \in DOMAIN Balances => Balances[<<s, v>>] = 0)
                => \/ /\ last'.result = "InsufficientBalance"
                      /\ UNCHANGED <<Streams, Balances, account, events>>
                   \/ \A n \in TickArgs : ~tick(NoOrigin, s, v, n)]_vars

\* C18, amended: on an existing stream a tick for a pair whose reservation
\* record holds 0 ends as a tick for a pair with no record does (it fails
\* with InsufficientBalance and changes nothing) only when its computed cost
\* is non-zero, or it aborts without change where the multiplication
\* overflows under overflow checks; when the computed cost is 0 it is not
\* rejected for insufficient balance, and it moves no funds.
AbsentSameAsZeroAtCost ==
    [][last'.op = "tick"
          => \A s \in StreamIds, v \in Accounts :
                (/\ s \in DOMAIN Streams
                 /\ <<s, v>> \in DOMAIN Balances
                 /\ Balances[<<s, v>>] = 0)
                => \A n \in TickArgs :
                      \/ IF BalanceMul(Streams[s].price_per_second, n) # 0
                         THEN /\ \/ last'.result = "InsufficientBalance"
                                 \/ /\ last'.result = "Panic"
                                    /\ MulOverflows(
                                         Streams[s].price_per_second, n)
                              /\ UNCHANGED <<Streams, Balances, account,
                                             events>>
                         ELSE /\ last'.result \in {"Ok", "Panic"}
                              /\ account' = account
                      \/ ~tick(NoOrigin, s, v, n)]_vars

\* A tick has just failed with InsufficientBalance on a ledger whose only
\* stream has a price above 0 and a reservation of 0 for every viewer.
ZeroReservationRejected ==
    /\ last = Call("tick", "InsufficientBalance")
    /\ Cardinality(DOMAIN Streams) = 1
    /\ \A s \in DOMAIN Streams :
          /\ Streams[s].price_per_second > 0
          /\ \A v \in Accounts :
                /\ <<s, v>> \in DOMAIN Balances
                /\ Balances[<<s, v>>] = 0

\* The (stream, viewer) pairs of one viewer with a reservation on record.
ReservationsOf(v) == {k \in DOMAIN Balances : k[2] = v}

\* C19: for every viewer the reservations the pallet records, summed over
\* all streams, are at most the funds the funds ledger holds in reserve for
\* that viewer.
ReservationsBacked ==
    \A v \in Accounts :
        SumOver(Balances, ReservationsOf(v)) <= account[v].reserved

\* A tick has just consumed part of a viewer's reservations, which stay
\* above 0 and below the hold.
ReservationPartlyConsumed ==
    /\ last = Call("tick", "Ok")
    /\ \E v \in Accounts :
          /\ SumOver(Balances, ReservationsOf(v)) > 0
          /\ SumOver(Balances, ReservationsOf(v)) < account[v].reserved

====
